---- MODULE Spec2Model ----
(***************************************************************************)
(* Model of app.py: the hybrid name matcher get_hybrid_matches (WRatio     *)
(* base score + Soundex bonus, exclusion, de-duplication, ranking, top-N)  *)
(* and the "Find Matches" button handler that guards it.                   *)
(*                                                                         *)
(* A string is a sequence of one-character strings, so that lower(),       *)
(* strip() and soundex() are computed character by character.  Scores are  *)
(* whole numbers of points (the code's floats take only such values here:  *)
(* 100 * 0.10 is exactly 10.0).                                            *)
(***************************************************************************)
EXTENDS Integers, Sequences, FiniteSets, TLC

VARIABLES pc, caller, query, name_list, top_n, wratio, matches, best_match, ranked,
          shown

vars == <<pc, caller, query, name_list, top_n, wratio, matches, best_match, ranked,
          shown>>

\* ---------------------------------------------------------------- bounds
MaxNames == 3      \* longest name_list handed to a direct call
MaxTopN == 2       \* largest top_n of a direct call

\* ------------------------------------------------------ program constants
SoundexMatchFull == 100
BonusWeightPercent == 10
CapScore == 100
SliderMin == 5
SliderMax == 20
SliderStep == 5

\* ------------------------------------------------------------- utilities
Min(a, b) == IF a <= b THEN a ELSE b

Range(s) == {s[i] : i \in DOMAIN s}

\* The orderings of a finite set, as sequences.
RECURSIVE Orderings(_)
Orderings(S) ==
  IF S = {} THEN {<<>>}
  ELSE UNION {{<<x>> \o p : p \in Orderings(S \ {x})} : x \in S}

\* Python's None as the value of best_match; no (name, score) pair equals it.
None == <<>>

\* Python's None as the result of dict.get; no Soundex code equals it.
NoCode == <<"None">>

\* ------------------------------------------------------ string functions
Lower(c) ==
  CASE c = "A" -> "a" [] c = "B" -> "b" [] c = "E" -> "e" [] OTHER -> c

Upper(c) ==
  CASE c = "a" -> "A" [] c = "b" -> "B" [] c = "e" -> "E" [] OTHER -> c

lower(s) == [i \in 1..Len(s) |-> Lower(s[i])]

upper(s) == [i \in 1..Len(s) |-> Upper(s[i])]

RECURSIVE lstrip(_)
lstrip(s) == IF s # <<>> /\ s[1] = " " THEN lstrip(Tail(s)) ELSE s

RECURSIVE rstrip(_)
rstrip(s) ==
  IF s # <<>> /\ s[Len(s)] = " " THEN rstrip(SubSeq(s, 1, Len(s) - 1)) ELSE s

strip(s) == rstrip(lstrip(s))

\* jellyfish.soundex: the digit of a letter, "" when the letter has none.
SoundexDigit(c) ==
  IF c \in {"B", "F", "P", "V"} THEN "1"
  ELSE IF c \in {"C", "G", "J", "K", "Q", "S", "X", "Z"} THEN "2"
  ELSE IF c \in {"D", "T"} THEN "3"
  ELSE IF c = "L" THEN "4"
  ELSE IF c \in {"M", "N"} THEN "5"
  ELSE IF c = "R" THEN "6"
  ELSE ""

RECURSIVE SoundexLoop(_, _, _, _)
SoundexLoop(s, i, last, result) ==
  IF i > Len(s) \/ Len(result) = 4 THEN result
  ELSE LET d == SoundexDigit(s[i]) IN
       IF d # ""
       THEN SoundexLoop(s, i + 1, d, IF d # last THEN Append(result, d) ELSE result)
       ELSE SoundexLoop(s, i + 1, IF s[i] \notin {"H", "W"} THEN "" ELSE last, result)

soundex(s) ==
  IF s = <<>> THEN <<>>
  ELSE LET u == upper(s)
           r == SoundexLoop(u, 2, SoundexDigit(u[1]), <<u[1]>>)
       IN r \o [i \in 1..(4 - Len(r)) |-> "0"]

\* ---------------------------------------------------------- the dataset
\* The reference list (a three-name stand-in for the 150 names of the file).
names == << <<"b", "a">>, <<"b", "e">>, <<"a", "b">> >>

name_soundex_map == [n \in Range(names) |-> soundex(n)]

\* Variant: a name the index does not hold is encoded on the spot.
SoundexGet_encode_missing(name) == soundex(name)

\* name_soundex_map.get(name)
SoundexGet(name) ==
  IF name \in DOMAIN name_soundex_map THEN name_soundex_map[name] ELSE NoCode

\* ------------------------------------------------------------ the inputs
\* Names a caller may pass directly: "ba" and "be" are in the reference list,
\* "Ba" is a case variant of "ba" that the phonetic index does not hold, " " is
\* blank.
NameUniverse == { <<" ">>, <<"b", "a">>, <<"B", "a">>, <<"b", "e">> }

Queries == { <<>>, <<" ">>, <<"B", "A">>, <<"b", "e">> }

NameLists == UNION {[1..k -> NameUniverse] : k \in 0..MaxNames}

\* Values of fuzz.WRatio, a float in [0, 100]: the two ends, and two values
\* ten points apart of which only the upper one reaches the cap with the bonus.
Scores == {0, 85, 95, 100}

SliderChoices ==
  {SliderMin + SliderStep * k : k \in 0..((SliderMax - SliderMin) \div SliderStep)}

\* ------------------------------------------------- get_hybrid_matches
\* process.extract(query, name_list, scorer=fuzz.WRatio, limit=len(name_list)):
\* every choice with its score and index, best score first, equal scores in
\* index order.  w is WRatio(query, .) on the names of the list.
RECURSIVE SortedByScore(_)
SortedByScore(rows) ==
  IF rows = <<>> THEN <<>>
  ELSE LET front == SortedByScore(SubSeq(rows, 1, Len(rows) - 1))
           row == rows[Len(rows)]
           \* the rows that stay ahead of row: a score at least as good
           ahead == Cardinality({i \in 1..Len(front) : front[i].wratio >= row.wratio})
       IN SubSeq(front, 1, ahead) \o <<row>> \o SubSeq(front, ahead + 1, Len(front))

extract(nl, w) ==
  SortedByScore([i \in 1..Len(nl) |->
                   [name |-> nl[i], wratio |-> w[nl[i]], index |-> i - 1]])

\* Variants of the exclusion filter: comparing the strings as they are,
\* lower-casing the candidate only, and dropping every row on a blank query.
Exclude_case_sensitive(df, q) == SelectSeq(df, LAMBDA r : r.name # q)

Exclude_query_as_typed(df, q) == SelectSeq(df, LAMBDA r : lower(r.name) # q)

Exclude_blank_query(df, q) ==
  IF strip(q) = <<>> THEN <<>>
  ELSE SelectSeq(df, LAMBDA r : lower(r.name) # lower(q))

\* df[df['Matched Name'].str.lower() != query.lower()]
Exclude(df, q) == SelectSeq(df, LAMBDA r : lower(r.name) # lower(q))

\* Variant: no de-duplication.
drop_duplicates_skipped(df) == df

\* df.drop_duplicates(subset=['Matched Name']): the first row of each name stays.
RECURSIVE drop_duplicates(_)
drop_duplicates(df) ==
  IF df = <<>> THEN <<>>
  ELSE LET front == drop_duplicates(SubSeq(df, 1, Len(df) - 1))
           row == df[Len(df)]
       IN IF \E i \in 1..Len(front) : front[i].name = row.name
          THEN front ELSE Append(front, row)

\* Variants: the sum returned without the cap, and the bonus left out.
calculate_bonus_score_uncapped(row, query_soundex) ==
  LET soundex_match ==
        IF query_soundex = SoundexGet(row.name) THEN SoundexMatchFull ELSE 0
  IN row.wratio + (soundex_match * BonusWeightPercent) \div 100

calculate_bonus_score_no_bonus(row, query_soundex) == Min(CapScore, row.wratio)

calculate_bonus_score(row, query_soundex) ==
  LET soundex_match ==
        IF query_soundex = SoundexGet(row.name) THEN SoundexMatchFull ELSE 0
      phonetic_bonus == (soundex_match * BonusWeightPercent) \div 100
      hybrid_score == row.wratio + phonetic_bonus
  IN Min(CapScore, hybrid_score)

\* df['Hybrid Score'] = df.apply(calculate_bonus_score, axis=1)
apply_bonus(df, q) ==
  [i \in 1..Len(df) |->
     [name |-> df[i].name, wratio |-> df[i].wratio,
      hybrid |-> calculate_bonus_score(df[i], soundex(q))]]

\* Variant: ascending=True.
sort_values_ascending(df) ==
  { [i \in 1..Len(df) |-> df[p[i]]] :
      p \in {p \in Orderings(1..Len(df)) :
               \A i \in 1..(Len(df) - 1) : df[p[i]].hybrid <= df[p[i + 1]].hybrid} }

\* df.sort_values(by='Hybrid Score', ascending=False): the default sort kind is
\* quicksort, which is not stable, so rows of equal score come out in any order.
sort_values(df) ==
  { [i \in 1..Len(df) |-> df[p[i]]] :
      p \in {p \in Orderings(1..Len(df)) :
               \A i \in 1..(Len(df) - 1) : df[p[i]].hybrid >= df[p[i + 1]].hybrid} }

\* Variant: no truncation.
head_everything(df, n) == df

head(df, n) == SubSeq(df, 1, Min(n, Len(df)))

\* Variant: the last row instead of the first.
BestMatch_last_row(df) ==
  IF df = <<>> THEN None ELSE <<df[Len(df)].name, df[Len(df)].hybrid>>

\* if df.empty: return None, ...; best_match = (df.iloc[0][name], df.iloc[0][score])
BestMatch(df) == IF df = <<>> THEN None ELSE <<df[1].name, df[1].hybrid>>

get_hybrid_matches(who, q, nl, n, w) ==
  LET m == extract(nl, w)
      df == apply_bonus(drop_duplicates(Exclude(m, q)), q)
  IN \E sorted \in sort_values(df) :
       LET top == head(sorted, n) IN
       /\ pc' = "returned"
       /\ caller' = who
       /\ query' = q
       /\ name_list' = nl
       /\ top_n' = n
       /\ wratio' = w
       /\ matches' = m
       /\ best_match' = BestMatch(top)
       /\ ranked' = top

\* ------------------------------------------------------------- behaviour
Init ==
  /\ pc = "idle"
  /\ caller = "none"
  /\ query = <<>>
  /\ name_list = <<>>
  /\ top_n = 0
  /\ wratio = <<>>
  /\ matches = <<>>
  /\ best_match = None
  /\ ranked = <<>>
  /\ shown = "nothing"

\* A direct call of get_hybrid_matches(query, name_list, top_n).
DirectCall ==
  /\ pc = "idle"
  /\ \E q \in Queries, nl \in NameLists, n \in 1..MaxTopN :
       \E w \in [Range(nl) -> Scores] :
         get_hybrid_matches("direct", q, nl, n, w)
  /\ UNCHANGED shown

\* The button handler with a blank query: st.error, the matcher is not called.
FindMatchesRejected ==
  /\ pc = "idle"
  /\ \E q \in Queries :
       /\ strip(q) = <<>>
       /\ pc' = "rejected"
       /\ caller' = "ui"
       /\ query' = q
       /\ shown' = "error"
       /\ UNCHANGED <<name_list, top_n, wratio, matches, best_match, ranked>>

\* The button handler with a query: get_hybrid_matches(query_name, names,
\* top_n_choice), then "if best:" the success banner and the table of the
\* ranking, else the warning.
FindMatches ==
  /\ pc = "idle"
  /\ \E q \in Queries, n \in SliderChoices :
       /\ strip(q) # <<>>
       /\ \E w \in [Range(names) -> Scores] :
            get_hybrid_matches("ui", q, names, n, w)
  /\ shown' = IF best_match' # None THEN "success" ELSE "warning"

Next == DirectCall \/ FindMatchesRejected \/ FindMatches

Spec == Init /\ [][Next]_vars

\* ------------------------------------------------------------ properties
\* What the claims speak of, written from the arguments of the call and the
\* returned values only.
Returned == pc = "returned"

Blank(s) == \A i \in 1..Len(s) : s[i] = " "

SameIgnoringCase(a, b) ==
  /\ Len(a) = Len(b)
  /\ \A i \in 1..Len(a) : Lower(a[i]) = Lower(b[i])

\* The distinct names of the list that are not the query up to case.
SurvivorNames == {n \in Range(name_list) : ~SameIgnoringCase(n, query)}

RankedNames == {ranked[i].name : i \in 1..Len(ranked)}

\* The phonetic index holds a code for n, and it is the code of the query.
PhoneticMatch(n) ==
  \E i \in 1..Len(names) : names[i] = n /\ soundex(names[i]) = soundex(query)

\* The place of n in the ranking, and in the bulk scorer's output.
RankOf(n) == CHOOSE i \in 1..Len(ranked) : ranked[i].name = n

FirstInMatches(n) ==
  CHOOSE i \in 1..Len(matches) :
    /\ matches[i].name = n
    /\ \A j \in 1..(i - 1) : matches[j].name # n

C2_Bound ==
  Returned =>
    \A i \in 1..Len(ranked) :
      /\ 0 <= ranked[i].hybrid
      /\ ranked[i].hybrid <= 100
      /\ ranked[i].hybrid >= wratio[ranked[i].name]

C2_Witness ==
  /\ Returned
  /\ \E i \in 1..Len(ranked) :
       /\ wratio[ranked[i].name] = 95
       /\ PhoneticMatch(ranked[i].name)
       /\ ranked[i].hybrid = 100

\* C3: no entry of the name list equal to the query up to case is in the
\* ranking or is the best match, whatever its casing and however many case
\* variants the list holds.
C3_SelfExclusion ==
  Returned =>
    \A k \in 1..Len(name_list) :
      SameIgnoringCase(name_list[k], query) =>
        /\ name_list[k] \notin RankedNames
        /\ best_match # None => best_match[1] # name_list[k]

C3_Witness ==
  /\ Returned
  /\ \E k, l \in 1..Len(name_list) :
       /\ name_list[k] # name_list[l]
       /\ name_list[k] # query
       /\ name_list[l] # query
       /\ SameIgnoringCase(name_list[k], query)
       /\ SameIgnoringCase(name_list[l], query)
  /\ ranked # <<>>

\* C4: the ranking holds each exact string at most once, each with the base
\* score of its first occurrence in the bulk scorer's output, and strings that
\* differ only in case stay distinct entries (none is dropped for the other).
C4_Deduplication ==
  Returned =>
    /\ \A i, j \in 1..Len(ranked) : i # j => ranked[i].name # ranked[j].name
    /\ \A i \in 1..Len(ranked) :
         ranked[i].wratio = matches[FirstInMatches(ranked[i].name)].wratio
    /\ Len(ranked) < top_n => RankedNames = SurvivorNames

C4_Witness ==
  /\ Returned
  /\ \E k, l \in 1..Len(name_list) : k # l /\ name_list[k] = name_list[l]
                                     /\ name_list[k] \in RankedNames
  /\ \E a, b \in RankedNames : a # b /\ SameIgnoringCase(a, b)

\* C5: the ranking has min(top_n, S) entries, S the number of distinct names of
\* the list that are not the query up to case.
C5_TopN ==
  Returned => Len(ranked) = Min(top_n, Cardinality(SurvivorNames))

C5_Witness ==
  /\ Returned
  /\ Cardinality(SurvivorNames) >= 1
  /\ top_n > Cardinality(SurvivorNames)
  /\ Len(ranked) = Cardinality(SurvivorNames)

\* C6: with an empty name list, or with every name equal to the query up to
\* case, the call returns (None, empty ranking).
C6_NoSurvivors ==
  Returned =>
    ((\A k \in 1..Len(name_list) : SameIgnoringCase(name_list[k], query))
       => best_match = None /\ ranked = <<>>)

C6_Witness ==
  /\ Returned
  /\ Len(name_list) >= 2
  /\ \A k \in 1..Len(name_list) : SameIgnoringCase(name_list[k], query)
  /\ \E k \in 1..Len(name_list) : name_list[k] # query
  /\ best_match = None

\* C7 (as stated): of two surviving candidates of equal base score of which
\* exactly one matches the query phonetically, the matching one is ranked
\* strictly higher; two that both match or both do not have equal hybrid scores.
C7_StrictlyHigher ==
  Returned =>
    /\ \A a, b \in SurvivorNames :
         (wratio[a] = wratio[b] /\ PhoneticMatch(a) /\ ~PhoneticMatch(b)
            /\ b \in RankedNames)
           => a \in RankedNames /\ RankOf(a) < RankOf(b)
    /\ \A i, j \in 1..Len(ranked) :
         (ranked[i].wratio = ranked[j].wratio
            /\ (PhoneticMatch(ranked[i].name) <=> PhoneticMatch(ranked[j].name)))
           => ranked[i].hybrid = ranked[j].hybrid

\* C7 (amended): of two such candidates the matching one is ranked strictly
\* higher, with a strictly higher hybrid score, when the common base score is
\* below 100; at base score 100 both have hybrid score 100.  Two that both
\* match or both do not have equal hybrid scores.
C7_HigherBelowCap ==
  Returned =>
    /\ \A a, b \in SurvivorNames :
         (wratio[a] = wratio[b] /\ PhoneticMatch(a) /\ ~PhoneticMatch(b)
            /\ b \in RankedNames)
           => IF wratio[a] < 100
              THEN /\ a \in RankedNames
                   /\ RankOf(a) < RankOf(b)
                   /\ ranked[RankOf(a)].hybrid > ranked[RankOf(b)].hybrid
              ELSE /\ ranked[RankOf(b)].hybrid = 100
                   /\ a \in RankedNames => ranked[RankOf(a)].hybrid = 100
    /\ \A i, j \in 1..Len(ranked) :
         (ranked[i].wratio = ranked[j].wratio
            /\ (PhoneticMatch(ranked[i].name) <=> PhoneticMatch(ranked[j].name)))
           => ranked[i].hybrid = ranked[j].hybrid

C7_Witness ==
  /\ Returned
  /\ \E a, b \in RankedNames :
       /\ wratio[a] = wratio[b]
       /\ wratio[a] = 95
       /\ PhoneticMatch(a)
       /\ ~PhoneticMatch(b)
       /\ RankOf(a) < RankOf(b)
       /\ FirstInMatches(a) > FirstInMatches(b)

\* C8: best_match is None exactly when the ranking is empty; otherwise it is
\* the (name, hybrid score) of the first entry, whose hybrid score is the
\* greatest among all surviving candidates.
C8_BestMatch ==
  Returned =>
    /\ best_match = None <=> ranked = <<>>
    /\ ranked # <<>> =>
         /\ best_match = <<ranked[1].name, ranked[1].hybrid>>
         /\ \A n \in SurvivorNames :
              best_match[2] >=
                IF PhoneticMatch(n) THEN Min(100, wratio[n] + 10) ELSE wratio[n]
         /\ \A i \in 1..Len(ranked) : best_match[2] >= ranked[i].hybrid

C8_Witness ==
  /\ Returned
  /\ Len(ranked) >= 2
  /\ Cardinality(SurvivorNames) > Len(ranked)
  /\ best_match = <<ranked[1].name, ranked[1].hybrid>>
  /\ ranked[1].hybrid > ranked[2].hybrid

\* C9: a returned candidate has hybrid score min(100, base + 10) when the
\* phonetic index holds a code for its name equal to the query's code, and its
\* base score otherwise; a name the index does not hold gets no bonus.
C9_HybridFormula ==
  Returned =>
    \A i \in 1..Len(ranked) :
      /\ ranked[i].wratio = wratio[ranked[i].name]
      /\ ranked[i].hybrid =
           IF PhoneticMatch(ranked[i].name)
           THEN Min(100, ranked[i].wratio + 10)
           ELSE ranked[i].wratio

C9_Witness ==
  /\ Returned
  /\ \E i \in 1..Len(ranked) :
       /\ \A k \in 1..Len(names) : names[k] # ranked[i].name
       /\ soundex(ranked[i].name) = soundex(query)
       /\ ranked[i].wratio < 100
       /\ ranked[i].hybrid = ranked[i].wratio
  /\ \E i \in 1..Len(ranked) :
       /\ PhoneticMatch(ranked[i].name)
       /\ ranked[i].hybrid = ranked[i].wratio + 10

\* C10 (as stated): a direct call with an empty or whitespace-only query and a
\* non-empty name list returns (None, empty ranking).
C10_BlankQueryEmpty ==
  (Returned /\ caller = "direct" /\ Blank(query) /\ name_list # <<>>)
    => best_match = None /\ ranked = <<>>

\* C10 (amended): such a call is not special-cased: every name of the list
\* that is not the query up to case is a candidate, so the result is
\* (None, empty ranking) only when every name equals the query up to case, and
\* otherwise the ranking holds min(top_n, number of such names) entries.
C10_BlankQueryOrdinary ==
  (Returned /\ caller = "direct" /\ Blank(query) /\ name_list # <<>>)
    => /\ (best_match = None /\ ranked = <<>>) <=>
            \A k \in 1..Len(name_list) : lower(name_list[k]) = lower(query)
       /\ RankedNames \subseteq Range(name_list)
       /\ Cardinality(RankedNames) =
            Min(top_n, Cardinality({n \in Range(name_list) : lower(n) # lower(query)}))

C10_Witness ==
  /\ Returned
  /\ caller = "direct"
  /\ query = <<" ">>
  /\ name_list # <<>>
  /\ best_match # None
  /\ Len(ranked) = 2

====
